---------------------------- MODULE Spec2Model ----------------------------
(***************************************************************************)
(* IEEE 802.11a/g OFDM modem (package ieee80211ag): transmit-side bit      *)
(* chain (tx.py, common.py), receive-side decoding chain and the control   *)
(* flow of ofdm_receiver (rx.py), and the per-frame loop of main           *)
(* (__main__.py).                                                          *)
(*                                                                         *)
(* Bit vectors are sequences of integers, 1-based here and 0-based in the  *)
(* source: source index k is model index k + 1.  A call either returns a   *)
(* value or raises; a result is the record [exc, val] with exc = "none"    *)
(* for a normal return.                                                    *)
(***************************************************************************)
EXTENDS Integers, Sequences, FiniteSets, TLC

VARIABLES
    pc,                       \* position of the running call sequence
    INTERLEAVING_PATTERNS,    \* tx.py: _INTERLEAVING_PATTERNS, (n_cbps, n_bpsc) -> pattern
    DEINTERLEAVING_PATTERNS,  \* rx.py: _DEINTERLEAVING_PATTERNS
    op,                       \* the primitive under call and its inputs
    mid,                      \* the output of the transmit-side primitive
    out,                      \* the output of the receive-side primitive
    tx_mac_frame_bytes,       \* ofdm_transmitter: mac_frame_bytes
    tx_rate_key,              \* ofdm_transmitter: rate_key
    tx_scrambler_state,       \* encode_data_field: initial_scrambler_state
    tx_symbol_stream,         \* ofdm_transmitter: the returned symbol stream
    decoded_params,           \* result of decode_signal_field
    received,                 \* result of decode_data_symbols
    rx_args,                  \* ofdm_receiver: arguments and patched stage results
    falling_edge_position,    \* ofdm_receiver: falling_edge_position
    lt_peak_position,         \* ofdm_receiver: lt_peak_position
    sym_i,                    \* ofdm_receiver: loop index i of the symbol loop
    reads,                    \* ofdm_receiver: the sample windows [lo, hi) sliced so far
    stages,                   \* ofdm_receiver: the stages run so far, in order
    corrected_symbols,        \* ofdm_receiver: length of the returned array
    rx_waveform_written,      \* ofdm_receiver: the caller's buffer was written in place
    rx_waveform_shift,        \* ofdm_receiver: frequency (Hz) the caller's buffer was shifted by
    rx_waveforms,             \* main: what ofdm_receiver returns for each frame of rx_waveforms
    frame_i,                  \* main: number of frames the loop has gone through
    pilot_strength,           \* ofdm_receiver: |channel_estimate| at the 4 pilot bins
    mrc_coef,                 \* ofdm_receiver: the 4 combining weights, as <<numerator, denominator>>
    pilots,                   \* ofdm_receiver: pilots of the symbol under way
    average_slope_filter,     \* ofdm_receiver: the L most recent values of slope
    average_slope,            \* ofdm_receiver: <<numerator, denominator>> of average_slope
    symbol_log,               \* ofdm_receiver: per symbol processed, its windows and its received pilots
    pattern_calls             \* per frame context, its call of create_(de)interleaving_pattern under way

vars == << pc, INTERLEAVING_PATTERNS, DEINTERLEAVING_PATTERNS, op, mid, out,
           tx_mac_frame_bytes, tx_rate_key, tx_scrambler_state, tx_symbol_stream,
           decoded_params, received,
           rx_args, falling_edge_position, lt_peak_position, sym_i, reads, stages,
           corrected_symbols, rx_waveform_written, rx_waveform_shift,
           rx_waveforms, frame_i,
           pilot_strength, mrc_coef, pilots, average_slope_filter, average_slope,
           symbol_log, pattern_calls >>

codecVars == << op, mid, out >>
frameVars == << tx_mac_frame_bytes, tx_rate_key, tx_scrambler_state,
                tx_symbol_stream, decoded_params, received >>
receiverVars == << rx_args, falling_edge_position, lt_peak_position, sym_i, reads,
                   stages, corrected_symbols, rx_waveform_written,
                   rx_waveform_shift >>
cacheVars == << INTERLEAVING_PATTERNS, DEINTERLEAVING_PATTERNS >>
mainVars == << rx_waveforms, frame_i >>
callVars == << pattern_calls >>
equalizerVars == << pilot_strength, mrc_coef, pilots, average_slope_filter,
                    average_slope, symbol_log >>

----------------------------------------------------------------------------
(* Bounds of the explored inputs *)

\* longest MAC frame (bytes, CRC excluded) handed to ofdm_transmitter
MaxMacLen == 1
\* largest number of entries after the 7 leading zeros of a scrambler input
MaxScrTail == 2
\* PSDU lengths explored for the SIGNAL field: 2^k and 2^k - 1 for k up to this
MaxLenExp == 12
\* largest number of information bits before the 6 zero tail bits
MaxConvInfo == 3
\* largest number of constellation symbols given to mapper_ofdm
MaxMapSyms == 2
\* width of the neighbourhood explored around each threshold of ofdm_receiver
Slack == 1
\* largest sample_advance
MaxAdvance == 1
\* largest number_of_ofdm_symbols
MaxSymbols == 2
\* longest silence before the burst given to packet_detector
MaxPad == 3
\* number of frame contexts processed concurrently
MaxThreads == 2

----------------------------------------------------------------------------
(* Python / NumPy primitives used by the source *)

Min(a, b) == IF a < b THEN a ELSE b
Max(a, b) == IF a > b THEN a ELSE b

\* np.zeros(n, dtype=int)
Zeros(n) == [i \in 1..n |-> 0]

\* a[lo:hi] with 0 <= lo, 0 <= hi: the slice is clamped, never an error
Slice(a, lo, hi) ==
    LET l == Min(lo, Len(a))
        h == Min(hi, Len(a))
    IN  IF h <= l THEN << >> ELSE [i \in 1..(h - l) |-> a[l + i]]

\* a[-n:] for n > 0
LastN(a, n) == Slice(a, Max(Len(a) - n, 0), Len(a))

\* a[:-n] for n > 0
DropLastN(a, n) == Slice(a, 0, Max(Len(a) - n, 0))

\* a[::-1]
Reverse(a) == [i \in 1..Len(a) |-> a[Len(a) + 1 - i]]

\* np.sum(a)
RECURSIVE Sum(_)
Sum(a) == IF a = << >> THEN 0 ELSE a[1] + Sum(Tail(a))

\* np.any(a)
NpAny(a) == \E i \in 1..Len(a) : a[i] # 0

\* a ^ b on single bits
Xor(a, b) == (a + b) % 2

\* v ^ f for an integer v and a bit f: only the least significant bit changes
XorBit(v, f) == IF f = 0 THEN v ELSE IF v % 2 = 0 THEN v + 1 ELSE v - 1

\* the binary digits of n >= 0, most significant first, no leading zeros
RECURSIVE Digits(_)
Digits(n) == IF n < 2 THEN << n >> ELSE Append(Digits(n \div 2), n % 2)

\* format(n, '0<w>b'): at least w digits, never truncated
Format(n, w) ==
    LET d == Digits(n)
    IN  IF Len(d) >= w THEN d ELSE Zeros(w - Len(d)) \o d

\* int("".join(map(str, bits)), 2) for a non-empty string of 0/1
RECURSIVE IntOfBits(_)
IntOfBits(bits) ==
    IF bits = << >> THEN 0
    ELSE 2 * IntOfBits(SubSeq(bits, 1, Len(bits) - 1)) + bits[Len(bits)]

\* a[pattern]: element j of the result is a[pattern[j]] (0-based pattern)
Take(a, pattern) == [j \in 1..Len(pattern) |-> a[pattern[j] + 1]]

\* a[pattern] raises IndexError when an index is out of range
TakeOk(a, pattern) == \A j \in 1..Len(pattern) : pattern[j] < Len(a)

\* all sequences over S of length exactly n
RECURSIVE SeqsOfLen(_, _)
SeqsOfLen(S, n) ==
    IF n = 0 THEN { << >> }
    ELSE { Append(s, x) : s \in SeqsOfLen(S, n - 1), x \in S }

\* all sequences over S of length lo..hi
SeqsUpTo(S, lo, hi) == UNION { SeqsOfLen(S, n) : n \in lo..hi }

----------------------------------------------------------------------------
(* common.py: tables and the scrambler *)

\* keys of RATE_MAP
RateKeys == {13, 15, 5, 7, 9, 11, 1, 3}

RATE_MAP ==
    [k \in RateKeys |->
        CASE k = 13 -> [name |-> "BPSK 1/2",   Mbps |-> 6,  n_bpsc |-> 1, n_dbps |-> 24,  n_cbps |-> 48]
          [] k = 15 -> [name |-> "BPSK 3/4",   Mbps |-> 9,  n_bpsc |-> 1, n_dbps |-> 36,  n_cbps |-> 48]
          [] k = 5  -> [name |-> "QPSK 1/2",   Mbps |-> 12, n_bpsc |-> 2, n_dbps |-> 48,  n_cbps |-> 96]
          [] k = 7  -> [name |-> "QPSK 3/4",   Mbps |-> 18, n_bpsc |-> 2, n_dbps |-> 72,  n_cbps |-> 96]
          [] k = 9  -> [name |-> "16-QAM 1/2", Mbps |-> 24, n_bpsc |-> 4, n_dbps |-> 96,  n_cbps |-> 192]
          [] k = 11 -> [name |-> "16-QAM 3/4", Mbps |-> 36, n_bpsc |-> 4, n_dbps |-> 144, n_cbps |-> 192]
          [] k = 1  -> [name |-> "64-QAM 2/3", Mbps |-> 48, n_bpsc |-> 6, n_dbps |-> 192, n_cbps |-> 288]
          [] k = 3  -> [name |-> "64-QAM 3/4", Mbps |-> 54, n_bpsc |-> 6, n_dbps |-> 216, n_cbps |-> 288]]

\* the register step with the feedback taken from state[6] and state[2]
ScrambleShift_wrong_tap(state) == << Xor(state[7], state[3]) >> \o SubSeq(state, 1, 6)

\* the register step shifting the other way: feedback enters at state[6]
ScrambleShift_append(state) == SubSeq(state, 2, 7) \o << Xor(state[7], state[4]) >>

\* the register step with the feedback taken from state[6] and state[4]
ScrambleShift_taps_7_5(state) == << Xor(state[7], state[5]) >> \o SubSeq(state, 1, 6)

\* the state register after one step: state[1:] = state[:-1]; state[0] = feedback
ScrambleShift(state) == << Xor(state[7], state[4]) >> \o SubSeq(state, 1, 6)

\* the register after n steps from state.  The test on the register makes
\* the evaluation compute it at every step, and the steps are taken 16 at a
\* time when n is large, to keep the evaluation shallow.
RECURSIVE ScrambleState(_, _)
ScrambleState(state, n) ==
    IF n = 0 \/ state = << >> THEN state
    ELSE IF n > 16 THEN ScrambleState(ScrambleState(state, 16), n - 16)
    ELSE ScrambleState(ScrambleShift(state), n - 1)

\* scramble(data_bits, initial_state): output i is data_bits[i] ^ feedback,
\* feedback = state[6] ^ state[3] of the register before step i.  The loop is
\* unrolled 16 steps at a time to keep the evaluation shallow.
RECURSIVE ScrambleFrom(_, _)
ScrambleFrom(data_bits, state) ==
    IF data_bits = << >> \/ state = << >> THEN << >>
    ELSE IF Len(data_bits) > 16
    THEN ScrambleFrom(SubSeq(data_bits, 1, 16), state)
         \o ScrambleFrom(SubSeq(data_bits, 17, Len(data_bits)), ScrambleState(state, 16))
    ELSE << XorBit(data_bits[1], Xor(state[7], state[4])) >>
         \o ScrambleFrom(Tail(data_bits), ScrambleShift(state))

scramble(data_bits, initial_state) ==
    ScrambleFrom(data_bits, Format(initial_state, 7))

----------------------------------------------------------------------------
(* tx.py: convolutional encoder, interleaver, mapper *)

\* bit i (0-based) of u, zero before the start: the encoder starts in state 0
BitAt(u, i) == IF i < 0 THEN 0 ELSE u[i + 1]

\* Viterbi(7, [0o133, 0o171]).encode(bits): two output bits per input bit,
\* generator 133 (octal) taps the delays 0,2,3,5,6 and 171 the delays 0,1,2,3,6
convolutional_encoder(bits) ==
    [j \in 1..(2 * Len(bits)) |->
        LET i == (j - 1) \div 2
        IN  IF j % 2 = 1
            THEN (BitAt(bits, i) + BitAt(bits, i - 2) + BitAt(bits, i - 3)
                    + BitAt(bits, i - 5) + BitAt(bits, i - 6)) % 2
            ELSE (BitAt(bits, i) + BitAt(bits, i - 1) + BitAt(bits, i - 2)
                    + BitAt(bits, i - 3) + BitAt(bits, i - 6)) % 2]

\* i = (n_cbps // 16) * (k % 16) + (k // 16)
FirstPermutation(n_cbps, k) == (n_cbps \div 16) * (k % 16) + (k \div 16)

\* j = s * (i_idx // s) + (i_idx + n_cbps - (16 * i_idx // n_cbps)) % s
SecondPermutation(n_cbps, n_bpsc, i_idx) ==
    LET s == Max(n_bpsc \div 2, 1)
    IN  s * (i_idx \div s) + ((i_idx + n_cbps - ((16 * i_idx) \div n_cbps)) % s)

\* np.argsort(a): the 0-based indices of a in increasing order of value
\* (ties, which a permutation does not have, by index)
Argsort(a) ==
    LET n == Len(a)
        ranked == { << Cardinality({m \in 1..n : a[m] < a[k] \/ (a[m] = a[k] /\ m < k)}),
                       k >> : k \in 1..n }
    IN  [j \in 1..n |-> (CHOOSE p \in ranked : p[1] = j - 1)[2] - 1]

\* the pattern without np.argsort: the forward map used as gather indices
ComputeInterleavingPattern_no_argsort(n_cbps, n_bpsc) ==
    [k \in 1..n_cbps |->
        SecondPermutation(n_cbps, n_bpsc, FirstPermutation(n_cbps, k - 1))]

\* the pattern create_interleaving_pattern computes on a cache miss
ComputeInterleavingPattern(n_cbps, n_bpsc) ==
    Argsort([k \in 1..n_cbps |->
                SecondPermutation(n_cbps, n_bpsc, FirstPermutation(n_cbps, k - 1))])

\* the (n_cbps, n_bpsc) pairs the program asks a pattern for
PatternKeys == { << RATE_MAP[k].n_cbps, RATE_MAP[k].n_bpsc >> : k \in RateKeys }

\* the computed patterns, one per pair
FreshPattern == [key \in PatternKeys |-> ComputeInterleavingPattern(key[1], key[2])]

\* create_interleaving_pattern(n_cbps, n_bpsc) against the cache dictionary:
\* the cached pattern on a hit, the computed one on a miss
create_interleaving_pattern(cache, n_cbps, n_bpsc) ==
    IF << n_cbps, n_bpsc >> \in DOMAIN cache
    THEN cache[<< n_cbps, n_bpsc >>]
    ELSE FreshPattern[<< n_cbps, n_bpsc >>]

\* the cache dictionary after create_interleaving_pattern(n_cbps, n_bpsc)
CacheAfter(cache, n_cbps, n_bpsc) ==
    [key \in DOMAIN cache \cup { << n_cbps, n_bpsc >> } |->
        create_interleaving_pattern(cache, key[1], key[2])]

\* interleave(bits, n_cbps, n_bpsc) == bits[pattern]
interleave(cache, bits, n_cbps, n_bpsc) ==
    Take(bits, create_interleaving_pattern(cache, n_cbps, n_bpsc))

\* one constellation point (re + j*im) / sqrt(den2)
Symbol(re, im, den2) == [re |-> re, im |-> im, den2 |-> den2]

\* BPSK_LUT, QPSK_LUT, QAM16_LUT, QAM64_LUT: the numerators of the levels
BPSK_LUT == << -1, 1 >>
QPSK_LUT == << -1, 1 >>
QAM16_LUT == << -3, -1, 1, 3 >>
QAM64_LUT == << -7, -5, -3, -1, 1, 3, 5, 7 >>

\* mapper_ofdm(input_bits, n_bpsc) for n_bpsc in {1, 2, 4, 6}
mapper_ofdm(input_bits, n_bpsc) ==
    [i \in 1..(Len(input_bits) \div n_bpsc) |->
        LET g == Slice(input_bits, (i - 1) * n_bpsc, i * n_bpsc)
        IN  CASE n_bpsc = 1 -> Symbol(BPSK_LUT[g[1] + 1], 0, 1)
              [] n_bpsc = 2 -> Symbol(QPSK_LUT[g[1] + 1], QPSK_LUT[g[2] + 1], 2)
              [] n_bpsc = 4 -> Symbol(QAM16_LUT[g[1] * 2 + g[2] + 1],
                                      QAM16_LUT[g[3] * 2 + g[4] + 1], 10)
              [] n_bpsc = 6 -> Symbol(QAM64_LUT[g[1] * 4 + g[2] * 2 + g[3] + 1],
                                      QAM64_LUT[g[4] * 4 + g[5] * 2 + g[6] + 1], 42)]

----------------------------------------------------------------------------
(* bytes, bits and CRC-32 *)

\* element-wise a ^ b on bit vectors of equal length
XorBits(a, b) == [i \in 1..Len(a) |-> Xor(a[i], b[i])]

\* the 8 bits of a byte, least significant first
ByteBits(v) == [i \in 1..8 |-> (v \div (2 ^ (i - 1))) % 2]

\* the byte of 8 bits, least significant first
BitsByte(bits) == Sum([i \in 1..8 |-> bits[i] * (2 ^ (i - 1))])

\* the reflected IEEE 802 CRC polynomial 0xEDB88320 as 32 bits, least
\* significant first (a 32-bit register is a sequence of 32 bits)
CrcPoly ==
    Reverse(<< 1,1,1,0, 1,1,0,1, 1,0,1,1, 1,0,0,0,
               1,0,0,0, 0,0,1,1, 0,0,1,0, 0,0,0,0 >>)

\* 0xFFFFFFFF
Ones32 == [i \in 1..32 |-> 1]

\* the CRC register after shifting it n times
RECURSIVE CrcShift(_, _)
CrcShift(reg, n) ==
    IF n = 0 THEN reg
    ELSE CrcShift(IF reg[1] = 1 THEN XorBits(Tail(reg) \o << 0 >>, CrcPoly)
                                ELSE Tail(reg) \o << 0 >>,
                  n - 1)

\* the CRC register after the bytes of data
RECURSIVE CrcUpdate(_, _)
CrcUpdate(reg, data) ==
    IF data = << >> THEN reg
    ELSE CrcUpdate(CrcShift(XorBits(reg, ByteBits(data[1]) \o Zeros(24)), 8),
                   Tail(data))

\* binascii.crc32(data) & 0xFFFFFFFF, as its 4 bytes, least significant first
crc32(data) ==
    LET reg == XorBits(CrcUpdate(Ones32, data), Ones32)
    IN  [i \in 1..4 |-> BitsByte(SubSeq(reg, 8 * i - 7, 8 * i))]

\* int.from_bytes(b, byteorder='little') for at most 4 bytes, as its 4 bytes,
\* least significant first
FromBytesLittle(b) == b \o Zeros(4 - Len(b))

\* np.unpackbits(bytes, bitorder='little')
UnpackBitsLittle(b) ==
    [i \in 1..(8 * Len(b)) |-> (b[((i - 1) \div 8) + 1] \div (2 ^ ((i - 1) % 8))) % 2]

\* np.packbits(bits, bitorder='little'): the last byte is zero-padded
PackBitsLittle(bits) ==
    [g \in 1..((Len(bits) + 7) \div 8) |->
        LET grp == Slice(bits, 8 * (g - 1), 8 * g)
        IN  Sum([b \in 1..Len(grp) |-> grp[b] * (2 ^ (b - 1))])]

----------------------------------------------------------------------------
(* tx.py: SIGNAL field, DATA field, transmitter *)

\* create_signal_field with the [::-1] of the LENGTH bits left out
signal_field_24_bits_msb_first(psdu_length_bytes, rate_key) ==
    LET info_bits == Format(rate_key, 4) \o << 0 >> \o Format(psdu_length_bytes, 12)
    IN  info_bits \o << Sum(info_bits) % 2 >> \o Zeros(6)

\* the bits create_signal_field hands to the convolutional encoder
signal_field_24_bits(psdu_length_bytes, rate_key) ==
    LET rate_bits    == Format(rate_key, 4)
        reserved_bit == << 0 >>
        length_bits  == Reverse(Format(psdu_length_bytes, 12))
        info_bits    == rate_bits \o reserved_bit \o length_bits
        parity       == Sum(info_bits) % 2
        tail_bits    == Zeros(6)
    IN  info_bits \o << parity >> \o tail_bits

\* signal_symbols = 2 * interleaved_bits - 1
BpskSymbols(bits) == [i \in 1..Len(bits) |-> Symbol(2 * bits[i] - 1, 0, 1)]

\* create_signal_field(psdu_length_bytes, rate_key)
create_signal_field(cache, psdu_length_bytes, rate_key) ==
    LET encoded_bits     == convolutional_encoder(
                                signal_field_24_bits(psdu_length_bytes, rate_key))
        interleaved_bits == interleave(cache, encoded_bits, 48, 1)
    IN  BpskSymbols(interleaved_bits)

\* a[lo:lo+Len(b)] = b
Overwrite(a, lo, b) ==
    [i \in 1..Len(a) |-> IF i > lo /\ i <= lo + Len(b) THEN b[i - lo] ELSE a[i]]

\* int(np.ceil(a / b)) for a >= 0, b > 0
CeilDiv(a, b) == (a + b - 1) \div b

\* the scrambled bits encode_data_field hands to the convolutional encoder
scrambled_bits(psdu_bytes, rate_key, initial_scrambler_state) ==
    LET n_dbps           == RATE_MAP[rate_key].n_dbps
        service_bits     == Zeros(16)
        psdu_bits        == UnpackBitsLittle(psdu_bytes)
        tail_bits        == Zeros(6)
        total_data_bits  == Len(service_bits) + Len(psdu_bits) + Len(tail_bits)
        num_ofdm_symbols == CeilDiv(total_data_bits, n_dbps)
        num_pad_bits     == num_ofdm_symbols * n_dbps - total_data_bits
        pad_bits         == Zeros(num_pad_bits)
        data_to_encode   == service_bits \o psdu_bits \o tail_bits \o pad_bits
    IN  Overwrite(scramble(data_to_encode, initial_scrambler_state),
                  Len(service_bits) + Len(psdu_bits), tail_bits)

\* the concatenation of the rows of a sequence of sequences
RECURSIVE Flatten(_)
Flatten(rows) == IF rows = << >> THEN << >> ELSE rows[1] \o Flatten(Tail(rows))

\* encode_data_field(psdu_bytes, rate_key) with the scrambler state it drew
encode_data_field(cache, psdu_bytes, rate_key, initial_scrambler_state) ==
    LET n_dbps           == RATE_MAP[rate_key].n_dbps
        n_cbps           == RATE_MAP[rate_key].n_cbps
        n_bpsc           == RATE_MAP[rate_key].n_bpsc
        total_data_bits  == 16 + 8 * Len(psdu_bytes) + 6
        num_ofdm_symbols == CeilDiv(total_data_bits, n_dbps)
        encoded_bits     == convolutional_encoder(
                                scrambled_bits(psdu_bytes, rate_key,
                                               initial_scrambler_state))
    IN  Flatten([i \in 1..num_ofdm_symbols |->
            mapper_ofdm(
                interleave(cache, Slice(encoded_bits, (i - 1) * n_cbps, i * n_cbps),
                           n_cbps, n_bpsc),
                n_bpsc)])

\* psdu_bytes of ofdm_transmitter: the MAC frame followed by its CRC-32
psdu_with_crc(mac_frame_bytes) ==
    mac_frame_bytes \o crc32(mac_frame_bytes)

\* the symbol stream ofdm_transmitter returns: SIGNAL symbols, then DATA symbols
ofdm_transmitter(cache, mac_frame_bytes, rate_key, initial_scrambler_state) ==
    LET psdu_bytes     == psdu_with_crc(mac_frame_bytes)
        signal_symbols == create_signal_field(cache, Len(psdu_bytes), rate_key)
        data_symbols   == encode_data_field(CacheAfter(cache, 48, 1), psdu_bytes,
                                            rate_key, initial_scrambler_state)
    IN  signal_symbols \o data_symbols

\* the cache dictionary after ofdm_transmitter
CacheAfterTransmit(cache, rate_key) ==
    CacheAfter(CacheAfter(cache, 48, 1),
               RATE_MAP[rate_key].n_cbps, RATE_MAP[rate_key].n_bpsc)

----------------------------------------------------------------------------
(* rx.py: the decoding chain *)

\* a normal return carrying val
Return(val) == [exc |-> "none", val |-> val]

\* an exception of the named class
Raise(exc) == [exc |-> exc, val |-> << >>]

\* descramble(scrambled_bits): return np.array([], dtype=np.uint8)
descramble(scrambled) == << >>

\* convolutional_decoder(soft_bits): return np.array([], dtype=int)
convolutional_decoder(soft_bits) == << >>

\* create_deinterleaving_pattern(n_cbps, n_bpsc): return np.array([], dtype=int)
create_deinterleaving_pattern(n_cbps, n_bpsc) == << >>

\* demapper_ofdm(symbols_iq, n_bpsc): return np.array([], dtype=float)
demapper_ofdm(symbols_iq, n_bpsc) == << >>

\* (soft_bits > 0).astype(np.uint8)
HardDecision(soft_bits) == [i \in 1..Len(soft_bits) |-> IF soft_bits[i] > 0 THEN 1 ELSE 0]

\* 2 * bits - 1 as floats
SoftBits(bits) == [i \in 1..Len(bits) |-> 2 * bits[i] - 1]

\* RATE_MAP.get(rate_val, {'name': 'Invalid Rate', 'Mbps': 0})
InvalidRate == [name |-> "Invalid Rate", Mbps |-> 0]
RateInfo(rate_val) ==
    IF rate_val \in DOMAIN RATE_MAP THEN RATE_MAP[rate_val] ELSE InvalidRate

\* decode_signal_field, step 4: the parsing of the decoded bits.
\* int("", 2) raises ValueError and decoded_bits[17] raises IndexError.
ParseSignalBits(decoded_bits) ==
    LET rate_bits   == Slice(decoded_bits, 0, 4)
        length_bits == Slice(decoded_bits, 5, 17)
    IN  IF rate_bits = << >> THEN Raise("ValueError")
        ELSE IF length_bits = << >> THEN Raise("ValueError")
        ELSE IF Len(decoded_bits) < 18 THEN Raise("IndexError")
        ELSE Return([rate_info |-> RateInfo(IntOfBits(rate_bits)),
                     length    |-> IntOfBits(Reverse(length_bits)),
                     parity_ok |-> (Sum(Slice(decoded_bits, 0, 17)) % 2
                                        = decoded_bits[18]),
                     tail_ok   |-> ~NpAny(Slice(decoded_bits, 18, 24)),
                     raw_bits  |-> decoded_bits])

\* decode_signal_field(signal_symbol_iq)
decode_signal_field(signal_symbol_iq) ==
    LET soft_bits              == demapper_ofdm(signal_symbol_iq, 1)
        deinterleaving_pattern == create_deinterleaving_pattern(48, 1)
    IN  IF ~TakeOk(soft_bits, deinterleaving_pattern) THEN Raise("IndexError")
        ELSE ParseSignalBits(
                convolutional_decoder(Take(soft_bits, deinterleaving_pattern)))

\* decode_data_symbols, step 5: PSDU extraction and CRC check
ExtractPsdu(descrambled_bits, psdu_length, tail_ok) ==
    LET psdu_with_crc_bits  == Slice(descrambled_bits, 16, 16 + psdu_length * 8)
        psdu_with_crc_bytes == PackBitsLittle(psdu_with_crc_bits)
        mac_frame_bytes     == DropLastN(psdu_with_crc_bytes, 4)
        received_crc_bytes  == LastN(psdu_with_crc_bytes, 4)
        calculated_crc      == crc32(mac_frame_bytes)
        received_crc        == FromBytesLittle(received_crc_bytes)
    IN  Return([mac_frame_bytes |-> mac_frame_bytes,
                tail_ok         |-> tail_ok,
                crc_ok          |-> (calculated_crc = received_crc)])

\* decode_data_symbols(data_symbols_iq, rate_info, psdu_length).
\* rate_info['n_bpsc'] raises KeyError on the 'Invalid Rate' entry, reshape
\* raises ValueError unless the soft bits fill num_ofdm_symbols rows of n_cbps.
decode_data_symbols(data_symbols_iq, rate_info, psdu_length) ==
    IF "n_bpsc" \notin DOMAIN rate_info THEN Raise("KeyError")
    ELSE
    LET n_bpsc              == rate_info.n_bpsc
        n_cbps              == rate_info.n_cbps
        soft_bits           == demapper_ofdm(data_symbols_iq, n_bpsc)
        num_ofdm_symbols    == Len(data_symbols_iq) \div 48
        deinterleave_pattern == create_deinterleaving_pattern(n_cbps, n_bpsc)
    IN  IF Len(soft_bits) # num_ofdm_symbols * n_cbps THEN Raise("ValueError")
        ELSE IF num_ofdm_symbols > 0 /\ \E j \in 1..Len(deinterleave_pattern) :
                    deinterleave_pattern[j] >= n_cbps
        THEN Raise("IndexError")
        ELSE
        LET deinterleaved_soft_bits ==
                Flatten([r \in 1..num_ofdm_symbols |->
                    Take(Slice(soft_bits, (r - 1) * n_cbps, r * n_cbps),
                         deinterleave_pattern)])
            total_data_bits  == 16 + psdu_length * 8 + 6
            total_coded_bits == total_data_bits * 2
            viterbi_input    == Slice(deinterleaved_soft_bits, 0, total_coded_bits)
            decoded_scrambled_bits == convolutional_decoder(viterbi_input)
            tail_ok          == ~NpAny(LastN(decoded_scrambled_bits, 6))
            descrambled_bits == descramble(decoded_scrambled_bits)
        IN  ExtractPsdu(descrambled_bits, psdu_length, tail_ok)

----------------------------------------------------------------------------
(* State before any call: the module-level caches are empty dictionaries *)

\* a result slot no call has filled yet
NotCalled == [exc |-> "notcalled", val |-> << >>]

CachesEmpty ==
    /\ INTERLEAVING_PATTERNS = << >>
    /\ DEINTERLEAVING_PATTERNS = << >>

CodecIdle == op = [fn |-> "none"] /\ mid = << >> /\ out = << >>

FrameIdle ==
    /\ tx_mac_frame_bytes = << >>
    /\ tx_rate_key = 0
    /\ tx_scrambler_state = 0
    /\ tx_symbol_stream = << >>
    /\ decoded_params = NotCalled
    /\ received = NotCalled

ReceiverIdle ==
    /\ rx_args = [len |-> 0]
    /\ falling_edge_position = -1
    /\ lt_peak_position = 0
    /\ sym_i = 0
    /\ reads = {}
    /\ stages = << >>
    /\ corrected_symbols = 0
    /\ rx_waveform_written = FALSE
    /\ rx_waveform_shift = 0

MainIdle == rx_waveforms = << >> /\ frame_i = 0

EqualizerIdle ==
    /\ pilot_strength = << >>
    /\ mrc_coef = << >>
    /\ pilots = << >>
    /\ average_slope_filter = << >>
    /\ average_slope = << 0, 1 >>
    /\ symbol_log = << >>

\* frame contexts that ask for patterns at the same time
Threads == 1..MaxThreads

CallsIdle == pattern_calls = [t \in Threads |-> [step |-> "idle"]]

Init ==
    /\ pc = "idle" /\ CachesEmpty /\ CodecIdle /\ FrameIdle /\ ReceiverIdle
    /\ MainIdle /\ EqualizerIdle /\ CallsIdle

----------------------------------------------------------------------------
(* One frame over an undistorted channel: ofdm_transmitter, then            *)
(* decode_signal_field on the first 48 symbols and decode_data_symbols on   *)
(* the rest (__main__.py:95-104, tests/test_integration.py:21-28)           *)

\* byte values the explored MAC frames are made of
ByteSamples == {0, 255}

\* the explored MAC frames
MacFrames == SeqsUpTo(ByteSamples, 0, MaxMacLen)

\* np.random.randint(1, 128)
ScramblerStates == 1..127

\* the values the 4 decoded rate bits take in the explored calls, next to the
\* transmitted key: 0 and 8 are not keys of RATE_MAP
RateValSamples == {0, 8}

\* ofdm_transmitter(mac_frame_bytes, rate_key)
Transmit ==
    /\ pc = "idle"
    /\ \E mac \in MacFrames, rk \in RateKeys, s \in ScramblerStates :
        /\ tx_mac_frame_bytes' = mac
        /\ tx_rate_key' = rk
        /\ tx_scrambler_state' = s
        /\ tx_symbol_stream' = ofdm_transmitter(INTERLEAVING_PATTERNS, mac, rk, s)
        /\ INTERLEAVING_PATTERNS' = CacheAfterTransmit(INTERLEAVING_PATTERNS, rk)
    /\ pc' = "transmitted"
    /\ UNCHANGED << DEINTERLEAVING_PATTERNS, decoded_params, received >>
    /\ UNCHANGED << codecVars, receiverVars >>
    /\ UNCHANGED << mainVars, equalizerVars, callVars >>

\* b with all 8 bits of byte p (1-based) inverted
FlipByte(b, p) == [b EXCEPT ![p] = 255 - b[p]]

\* PSDUs with a correct CRC-32 in one of which one byte was inverted
FlippedPsdus ==
    { FlipByte(psdu_with_crc(mac), p) : mac \in MacFrames, p \in 1..(MaxMacLen + 4) }
        \ { << >> }

\* scrambler states the frames made of a flipped PSDU are sent with
ScramblerStateSamples == {1, 93, 127}

\* ofdm_transmitter(mac_frame_bytes, rate_key) handed a PSDU with one byte flipped
TransmitFlipped ==
    /\ pc = "idle"
    /\ \E psdu \in FlippedPsdus, rk \in RateKeys, s \in ScramblerStateSamples :
        /\ tx_mac_frame_bytes' = psdu
        /\ tx_rate_key' = rk
        /\ tx_scrambler_state' = s
        /\ tx_symbol_stream' = ofdm_transmitter(INTERLEAVING_PATTERNS, psdu, rk, s)
        /\ INTERLEAVING_PATTERNS' = CacheAfterTransmit(INTERLEAVING_PATTERNS, rk)
    /\ pc' = "transmitted"
    /\ UNCHANGED << DEINTERLEAVING_PATTERNS, decoded_params, received >>
    /\ UNCHANGED << codecVars, receiverVars, mainVars, equalizerVars, callVars >>

\* decoded_params = decode_signal_field(corrected_symbols[:48])
DecodeSignal ==
    /\ pc = "transmitted"
    /\ decoded_params' = decode_signal_field(Slice(tx_symbol_stream, 0, 48))
    /\ pc' = IF decoded_params'.exc = "none" THEN "signal_decoded" ELSE "raised"
    /\ UNCHANGED << tx_mac_frame_bytes, tx_rate_key, tx_scrambler_state,
                    tx_symbol_stream, received >>
    /\ UNCHANGED << cacheVars, codecVars, receiverVars >>
    /\ UNCHANGED << mainVars, equalizerVars, callVars >>

\* received_mac_frame_bytes, tail_ok, crc_ok = decode_data_symbols(
\*     corrected_symbols[48:], decoded_params['rate_info'], decoded_params['length'])
\* with the rate_info the lookup of decode_signal_field gives for rate bits of
\* value rate_val, and the transmitted PSDU length
DecodeData ==
    /\ pc = "transmitted"
    /\ \E rate_val \in {tx_rate_key} \cup RateValSamples :
        /\ decoded_params' = Return([rate_info |-> RateInfo(rate_val),
                                     length    |-> Len(tx_mac_frame_bytes) + 4])
        /\ received' = decode_data_symbols(
                            Slice(tx_symbol_stream, 48, Len(tx_symbol_stream)),
                            RateInfo(rate_val), Len(tx_mac_frame_bytes) + 4)
    /\ pc' = IF received'.exc = "none" THEN "data_decoded" ELSE "raised"
    /\ UNCHANGED << tx_mac_frame_bytes, tx_rate_key, tx_scrambler_state,
                    tx_symbol_stream >>
    /\ UNCHANGED << cacheVars, codecVars, receiverVars >>
    /\ UNCHANGED << mainVars, equalizerVars, callVars >>

Next == Transmit \/ TransmitFlipped \/ DecodeSignal \/ DecodeData

Spec == Init /\ [][Next]_vars

----------------------------------------------------------------------------
(* The primitives called on their own, as the unit tests call them: the     *)
(* transmit-side primitive first, then the receive-side one on its output   *)

\* the call under way: primitive, input vector, parameter, extra parameter
Call(fn, arg, param, extra) ==
    [fn |-> fn, arg |-> arg, param |-> param, extra |-> extra]

\* entries of the vectors given to scramble (the test draws uint8 values)
ScrValues == {0, 1, 255}

\* vectors whose first 7 entries are 0, and one vector of zeros long enough
\* for the register to run through 127 steps
ScrambleInputs ==
    { Zeros(7) \o t : t \in SeqsUpTo(ScrValues, 0, MaxScrTail) } \cup { Zeros(127) }

\* bit vectors whose last 6 bits are 0
ConvInputs == { u \o Zeros(6) : u \in SeqsUpTo({0, 1}, 0, MaxConvInfo) }

\* noise amplitudes added to the soft bits, in tenths (the test uses sigma = 0.4)
NoiseSamples == {0, 4}

\* 2 * arr - 1 plus noise of amplitude e with alternating sign, in tenths
NoisySoftBits(bits, e) ==
    [i \in 1..Len(bits) |-> 10 * (2 * bits[i] - 1) + (IF i % 2 = 1 THEN e ELSE -e)]

\* the zero vector and the vectors with a single 1
InterleaveInputs(n) ==
    { Zeros(n) } \cup { [i \in 1..n |-> IF i = p THEN 1 ELSE 0] : p \in 1..n }

\* bits per subcarrier the mapper is exercised with
MapBpsc == {1, 2}

\* bit vectors whose length is a multiple of n_bpsc
MapInputs(n_bpsc) ==
    UNION { SeqsOfLen({0, 1}, n_bpsc * k) : k \in 0..MaxMapSyms }

\* PSDU lengths given to create_signal_field
LengthSamples ==
    { 2 ^ k : k \in 0..MaxLenExp } \cup { 2 ^ k - 1 : k \in 0..MaxLenExp } \cup { 1000 }

\* rate keys given to create_signal_field: the keys of RATE_MAP and 0
SignalRateKeys == RateKeys \cup {0}

\* scramble(arr, initial_state=initial_state)
Scramble ==
    /\ pc = "idle"
    /\ \E v \in ScrambleInputs, s \in ScramblerStates :
        /\ op' = Call("scramble", v, s, 0)
        /\ mid' = scramble(v, s)
    /\ pc' = "scrambled"
    /\ UNCHANGED << out, cacheVars, frameVars, receiverVars >>
    /\ UNCHANGED << mainVars, equalizerVars, callVars >>

\* descramble(...) on the scrambled vector
Descramble ==
    /\ pc = "scrambled"
    /\ out' = descramble(mid)
    /\ pc' = "descrambled"
    /\ UNCHANGED << op, mid, cacheVars, frameVars, receiverVars >>
    /\ UNCHANGED << mainVars, equalizerVars, callVars >>

\* convolutional_encoder(arr)
ConvEncode ==
    /\ pc = "idle"
    /\ \E u \in ConvInputs, e \in NoiseSamples :
        /\ op' = Call("conv", u, 0, e)
        /\ mid' = convolutional_encoder(u)
    /\ pc' = "encoded"
    /\ UNCHANGED << out, cacheVars, frameVars, receiverVars >>
    /\ UNCHANGED << mainVars, equalizerVars, callVars >>

\* convolutional_decoder(self._add_noise(...)) on the encoded bits
ConvDecode ==
    /\ pc = "encoded"
    /\ out' = convolutional_decoder(NoisySoftBits(mid, op.extra))
    /\ pc' = "decoded"
    /\ UNCHANGED << op, mid, cacheVars, frameVars, receiverVars >>
    /\ UNCHANGED << mainVars, equalizerVars, callVars >>

\* interleave(arr, n_cbps, n_bpsc) for a rate of RATE_MAP
Interleave ==
    /\ pc = "idle"
    /\ \E rk \in RateKeys :
        \E b \in InterleaveInputs(RATE_MAP[rk].n_cbps) :
            /\ op' = Call("interleave", b, rk, 0)
            /\ mid' = interleave(INTERLEAVING_PATTERNS, b,
                                 RATE_MAP[rk].n_cbps, RATE_MAP[rk].n_bpsc)
            /\ INTERLEAVING_PATTERNS' =
                    CacheAfter(INTERLEAVING_PATTERNS,
                               RATE_MAP[rk].n_cbps, RATE_MAP[rk].n_bpsc)
    /\ pc' = "interleaved"
    /\ UNCHANGED << out, DEINTERLEAVING_PATTERNS, frameVars, receiverVars >>
    /\ UNCHANGED << mainVars, equalizerVars, callVars >>

\* interleave(...)[pattern] with pattern = create_deinterleaving_pattern(n_cbps, n_bpsc)
Deinterleave ==
    /\ pc = "interleaved"
    /\ LET pattern == create_deinterleaving_pattern(RATE_MAP[op.param].n_cbps,
                                                   RATE_MAP[op.param].n_bpsc)
       IN  /\ TakeOk(mid, pattern)
           /\ out' = Take(mid, pattern)
    /\ pc' = "deinterleaved"
    /\ UNCHANGED << op, mid, cacheVars, frameVars, receiverVars >>
    /\ UNCHANGED << mainVars, equalizerVars, callVars >>

\* mapper_ofdm(arr, n_bpsc)
Map ==
    /\ pc = "idle"
    /\ \E n_bpsc \in MapBpsc :
        \E b \in MapInputs(n_bpsc) :
            /\ op' = Call("mapper", b, n_bpsc, 0)
            /\ mid' = mapper_ofdm(b, n_bpsc)
    /\ pc' = "mapped"
    /\ UNCHANGED << out, cacheVars, frameVars, receiverVars >>
    /\ UNCHANGED << mainVars, equalizerVars, callVars >>

\* (demapper_ofdm(..., n_bpsc) > 0).astype(np.uint8) on the mapped symbols
Demap ==
    /\ pc = "mapped"
    /\ out' = HardDecision(demapper_ofdm(mid, op.param))
    /\ pc' = "demapped"
    /\ UNCHANGED << op, mid, cacheVars, frameVars, receiverVars >>
    /\ UNCHANGED << mainVars, equalizerVars, callVars >>

\* bits per subcarrier of 16-QAM and 64-QAM
QamBpsc == {4, 6}

\* demapper_ofdm(mapper_ofdm(arr, n_bpsc), n_bpsc) for one 16-QAM or 64-QAM symbol
DemapQam ==
    /\ pc = "idle"
    /\ \E n_bpsc \in QamBpsc :
        \E b \in SeqsOfLen({0, 1}, n_bpsc) :
            /\ op' = Call("demapper", b, n_bpsc, 0)
            /\ mid' = mapper_ofdm(b, n_bpsc)
            /\ out' = Return(demapper_ofdm(mapper_ofdm(b, n_bpsc), n_bpsc))
    /\ pc' = "qam_demapped"
    /\ UNCHANGED << cacheVars, frameVars, receiverVars >>
    /\ UNCHANGED << mainVars, equalizerVars, callVars >>

\* the 24 bits create_signal_field builds before coding
BuildSignal ==
    /\ pc = "idle"
    /\ \E len \in LengthSamples, rk \in SignalRateKeys :
        /\ op' = Call("signal", << len >>, rk, -1)
        /\ mid' = signal_field_24_bits(len, rk)
    /\ pc' = "signal_built"
    /\ UNCHANGED << out, cacheVars, frameVars, receiverVars >>
    /\ UNCHANGED << mainVars, equalizerVars, callVars >>

\* one bit of the SIGNAL bits is inverted before they are parsed
FlipSignalBit ==
    /\ pc = "signal_built"
    /\ op.extra = -1
    /\ \E p \in 0..(Len(mid) - 1) :
        /\ op' = [op EXCEPT !.extra = p]
        /\ mid' = [mid EXCEPT ![p + 1] = 1 - mid[p + 1]]
    /\ UNCHANGED << pc, out, cacheVars, frameVars, receiverVars >>
    /\ UNCHANGED << mainVars, equalizerVars, callVars >>

\* step 4 of decode_signal_field on the SIGNAL bits
ParseSignal ==
    /\ pc = "signal_built"
    /\ decoded_params' = ParseSignalBits(mid)
    /\ pc' = "signal_parsed"
    /\ UNCHANGED << op, mid, out, cacheVars, receiverVars >>
    /\ UNCHANGED << tx_mac_frame_bytes, tx_rate_key, tx_scrambler_state,
                    tx_symbol_stream, received >>
    /\ UNCHANGED << mainVars, equalizerVars, callVars >>

NextCodec ==
    \/ Scramble \/ Descramble
    \/ ConvEncode \/ ConvDecode
    \/ Interleave \/ Deinterleave
    \/ Map \/ Demap \/ DemapQam
    \/ BuildSignal \/ FlipSignalBit \/ ParseSignal

SpecCodec == Init /\ [][NextCodec]_vars

----------------------------------------------------------------------------
(* rx.py: the control flow of ofdm_receiver.  Sample values are not         *)
(* modelled: the buffer is its length, and every slice of it is recorded    *)
(* as the window [lo, hi) of sample indices it reads.                       *)

\* packet_detector(rx_input)[2]: falling_edge_position is initialised to -1
\* and the body never assigns it
packet_detector(rx_len) == -1

\* packet_detector(rx_input)[0]: comparison_ratio = np.zeros(len(rx_input)),
\* never assigned by the body
comparison_ratio(rx_input) == Zeros(Len(rx_input))

\* packet_detector(rx_input)[1]: packet_det_flag = np.zeros(len(rx_input)),
\* never assigned by the body
packet_det_flag(rx_input) == Zeros(Len(rx_input))

\* The detection the docstring of packet_detector asks for, on real-valued
\* samples; index i counts from 0 as in the source.
\* rx_input[i], 0 before the first sample (the delay line starts at zero)
SampleAt(rx_input, i) == IF i >= 0 /\ i < Len(rx_input) THEN rx_input[i + 1] ELSE 0

\* step b: 32 * auto_corr_est[i], the sum of rx_input[j] * conj(rx_input[j-16])
\* over the 32 most recent samples
RECURSIVE AutoCorrSum(_, _, _)
AutoCorrSum(rx_input, i, taps) ==
    IF taps = 0 THEN 0
    ELSE SampleAt(rx_input, i) * SampleAt(rx_input, i - 16)
            + AutoCorrSum(rx_input, i - 1, taps - 1)

\* step c: 32 * variance_est, the sum of |rx_input[j]|^2 over the 32 most
\* recent samples
RECURSIVE PowerSum(_, _, _)
PowerSum(rx_input, i, taps) ==
    IF taps = 0 THEN 0
    ELSE SampleAt(rx_input, i) * SampleAt(rx_input, i) + PowerSum(rx_input, i - 1, taps - 1)

Abs(v) == IF v < 0 THEN 0 - v ELSE v

\* upper and lower threshold of the hysteresis, in hundredths
UpperThreshold == 85
LowerThreshold == 65

\* step d and e: comparison_ratio[i] > 0.85; no ratio is above or below a
\* threshold while the smoothed power is zero
RatioAboveUpper(rx_input, i) ==
    /\ PowerSum(rx_input, i, 32) > 0
    /\ 100 * Abs(AutoCorrSum(rx_input, i, 32)) > UpperThreshold * PowerSum(rx_input, i, 32)

\* step d and e: comparison_ratio[i] < 0.65
RatioBelowLower(rx_input, i) ==
    /\ PowerSum(rx_input, i, 32) > 0
    /\ 100 * Abs(AutoCorrSum(rx_input, i, 32)) < LowerThreshold * PowerSum(rx_input, i, 32)

\* step e: the detection state after sample i, starting at detection_flag = 0
RECURSIVE DetectionFlag(_, _)
DetectionFlag(rx_input, i) ==
    IF i < 0 THEN 0
    ELSE IF RatioAboveUpper(rx_input, i) THEN 1
    ELSE IF RatioBelowLower(rx_input, i) THEN 0
    ELSE DetectionFlag(rx_input, i - 1)

\* step f: the window the falling edge is looked for in
FallingEdgeWindow == 1000

\* step f: the indices at which the detection state goes from 1 to 0
FallingEdgesOf(rx_input) ==
    { i \in 1..(Len(rx_input) - 1) :
        /\ i < FallingEdgeWindow
        /\ DetectionFlag(rx_input, i - 1) = 1
        /\ DetectionFlag(rx_input, i) = 0 }

\* detect_frequency_offsets(rx_input, falling_edge_position): np.zeros(2)
detect_frequency_offsets(rx_len, falling_edge) == << 0, 0 >>

\* long_symbol_correlator(...)[1]: lt_peak_position is initialised to 0 and the
\* body never assigns it
long_symbol_correlator(rx_len, falling_edge) == 0

\* the check of falling_edge_position with "and" in place of "or"
FallingEdgeRejected_and(falling_edge) == falling_edge > 600 /\ falling_edge < 0

\* the frame is rejected: falling_edge_position > 600 or falling_edge_position < 0
FallingEdgeRejected(falling_edge) == falling_edge > 600 \/ falling_edge < 0

\* the bounds check of lt_peak_position without its lower bound
LtPeakOutOfBounds_upper_only(lt_peak, rx_len) == lt_peak + 64 > rx_len

\* the frame is dropped: lt_peak_position < 64 or lt_peak_position + 64 > len(...)
LtPeakOutOfBounds(lt_peak, rx_len) == lt_peak < 64 \/ lt_peak + 64 > rx_len

\* a window that starts in the guard interval of the symbol
SymbolStart_in_guard_interval(lt_peak, k) == (k * 80) + lt_peak + 64

\* start of the window of OFDM symbol i: (i * 80) + lt_peak_position + 64 + 16
SymbolStart(lt_peak, k) == (k * 80) + lt_peak + 64 + 16

\* stop = start + 64
SymbolStop(lt_peak, k) == SymbolStart(lt_peak, k) + 64

\* the symbol loop breaks at symbol i: stop > len(rx_waveform_20mhz)
SymbolOutOfBounds(lt_peak, k, rx_len) == SymbolStop(lt_peak, k) > rx_len

\* common.py: the 127 pilot polarities p_0 .. p_126
PILOT_POLARITY ==
    << 1, 1, 1, 1, -1, -1, -1, 1, -1, -1, -1, -1, 1, 1, -1, 1,
       -1, -1, 1, 1, -1, 1, 1, -1, 1, 1, 1, 1, 1, 1, -1, 1,
       1, 1, -1, 1, 1, -1, -1, 1, 1, 1, -1, 1, -1, -1, -1, 1,
       -1, 1, -1, -1, 1, -1, -1, 1, 1, 1, 1, 1, -1, -1, 1, 1,
       -1, -1, 1, -1, 1, -1, 1, 1, -1, -1, -1, 1, 1, -1, -1, -1,
       -1, 1, -1, -1, 1, -1, 1, 1, 1, 1, -1, 1, -1, 1, -1, 1,
       -1, -1, -1, -1, -1, 1, -1, 1, 1, -1, 1, -1, 1, 1, 1, -1,
       -1, 1, -1, -1, -1, 1, 1, 1, -1, -1, -1, -1, -1, -1, -1 >>

\* common.py: subcarriers of the 4 pilots and their bins in the 64-point FFT
PILOT_CARRIERS == << -21, -7, 7, 21 >>
PILOT_CARRIERS_IDX == << 64 - 21, 64 - 7, 7, 21 >>

\* common.py: base polarity of the 4 pilots
PILOT_BASE_POLARITY == << 1, 1, 1, -1 >>

\* tx.py, ifft_gi / ifft128_gi: the pilots put at PILOT_CARRIERS_IDX of OFDM
\* symbol symbol_idx (0 is SIGNAL, 1 the first DATA symbol)
TxPilots(symbol_idx) ==
    [j \in 1..4 |-> PILOT_BASE_POLARITY[j] * PILOT_POLARITY[(symbol_idx % 127) + 1]]

\* pilot weights that skip the test of sum_it
MrcCoef_no_zero_test(strength, use_max_ratio_combining) ==
    IF use_max_ratio_combining = 0 THEN [j \in 1..4 |-> << 1, 4 >>]
    ELSE [j \in 1..4 |-> << strength[j], Sum(strength) >>]

\* mrc_coef: 0.25 each when use_max_ratio_combining == 0 or sum_it == 0, else
\* pilot_strength / sum_it; a weight is the pair <<numerator, denominator>>
MrcCoef(strength, use_max_ratio_combining) ==
    LET sum_it == Sum(strength)
    IN  IF use_max_ratio_combining = 0 \/ sum_it = 0
        THEN [j \in 1..4 |-> << 1, 4 >>]
        ELSE [j \in 1..4 |-> << strength[j], sum_it >>]

\* L = 8, the length of average_slope_filter
L == 8

\* pilots = np.array([1+0j, 1+0j, 1+0j, 1+0j]): the equalized pilots are not read
DerotatePilots(equalized_pilots, i) == << 1, 1, 1, 1 >>

\* slope = 0: the pilots are not read
Slope(derotated_pilots, coef) == 0

\* average_slope_filter[1:] = average_slope_filter[:-1]; average_slope_filter[0] = slope
ShiftSlopeFilter(filter, slope) == << slope >> \o SubSeq(filter, 1, Len(filter) - 1)

\* average_slope = np.sum(average_slope_filter) / min(i+1, L)
AverageSlope(filter, i) == << Sum(filter), Min(i + 1, L) >>

\* the stages of step 3 with the correction left out
CoarseStages_no_correction(correct_frequency_offset) ==
    << "detect_frequency_offsets" >>

\* step 3: the offsets are measured, then the coarse one is removed if asked for
CoarseStages(correct_frequency_offset) ==
    << "detect_frequency_offsets" >>
        \o (IF correct_frequency_offset = 1 THEN << "nco_coarse" >> ELSE << >>)

\* step 4: the offsets are measured again, then the fine one is removed if asked for
FineStages(correct_frequency_offset) ==
    << "detect_frequency_offsets" >>
        \o (IF correct_frequency_offset = 1 THEN << "nco_fine" >> ELSE << >>)

\* magnitudes of the channel estimate at the 4 pilot bins
PilotStrengths == { << 0, 0, 0, 0 >>, << 2, 2, 2, 2 >>, << 3, 0, 1, 0 >> }

\* what the channel does to the 4 pilots of a symbol: nothing, a turn of all
\* by pi, a turn of the first by pi
PilotChannels == { << 1, 1, 1, 1 >>, << -1, -1, -1, -1 >>, << -1, 1, 1, 1 >> }

\* values the patched packet_detector returns (tests/test_ofdm_receiver.py
\* returns 177)
FallingEdges == {-1, 177} \cup ((0 - Slack)..Slack) \cup ((600 - Slack)..(600 + Slack))

\* values the patched long_symbol_correlator returns (the test returns 262)
LtPeaks == {0, 262} \cup ((64 - Slack)..(64 + Slack + MaxAdvance))

\* buffer lengths: around the ends of the training window and of the first
\* two symbol windows, an empty buffer and a long one
RxLengths ==
    {0, 1000} \cup UNION { (b - Slack)..(b + Slack + MaxAdvance) : b \in {128, 208, 288} }

\* the stage functions as bound in ieee80211ag.rx: the ones of rx.py, or the
\* replacements unittest.mock.patch installs in tests/test_ofdm_receiver.py
StageBindings ==
    { [patched |-> FALSE, detector |-> -1, offsets |-> << 0, 0 >>, peak |-> 0] }
    \cup { [patched |-> TRUE, detector |-> f, offsets |-> << 0, -100000 >>, peak |-> p] :
            f \in FallingEdges, p \in LtPeaks }

\* freq_offset = detect_frequency_offsets(rx_waveform_20mhz, falling_edge_position):
\* coarse_offset = freq_offset[0] and fine_offset = freq_offset[1], in Hz
FrequencyOffsets ==
    IF rx_args.bindings.patched THEN rx_args.bindings.offsets
    ELSE detect_frequency_offsets(rx_args.len, falling_edge_position)

\* ofdm_receiver(rx_waveform_20mhz, sample_advance, correct_frequency_offset,
\*               number_of_ofdm_symbols, use_max_ratio_combining) is entered
CallReceiver ==
    /\ pc = "idle"
    /\ \E len \in RxLengths, adv \in 0..MaxAdvance, cfo \in {0, 1},
          n \in 0..MaxSymbols, mrc \in {0, 1}, b \in StageBindings :
        rx_args' = [len |-> len, sample_advance |-> adv,
                    correct_frequency_offset |-> cfo,
                    number_of_ofdm_symbols |-> n,
                    use_max_ratio_combining |-> mrc, bindings |-> b]
    /\ pc' = "detect"
    /\ UNCHANGED << falling_edge_position, lt_peak_position, sym_i, reads, stages,
                    corrected_symbols, rx_waveform_written, rx_waveform_shift >>
    /\ UNCHANGED << cacheVars, codecVars, frameVars >>
    /\ UNCHANGED << mainVars, equalizerVars, callVars >>

\* 2. packet detector and the check of falling_edge_position
PacketDetect ==
    /\ pc = "detect"
    /\ falling_edge_position' =
            IF rx_args.bindings.patched THEN rx_args.bindings.detector
            ELSE packet_detector(rx_args.len)
    /\ stages' = Append(stages, "packet_detector")
    /\ pc' = IF FallingEdgeRejected(falling_edge_position') THEN "rejected" ELSE "coarse"
    /\ UNCHANGED << rx_args, lt_peak_position, sym_i, reads, corrected_symbols,
                    rx_waveform_written, rx_waveform_shift >>
    /\ UNCHANGED << cacheVars, codecVars, frameVars >>
    /\ UNCHANGED << mainVars, equalizerVars, callVars >>

\* 3. coarse frequency offset: estimate, then rx_waveform_20mhz *= nco_signal
CoarseCorrect ==
    /\ pc = "coarse"
    /\ stages' = stages \o CoarseStages(rx_args.correct_frequency_offset)
    /\ rx_waveform_written' =
            (rx_waveform_written \/ rx_args.correct_frequency_offset = 1)
    /\ rx_waveform_shift' =
            IF rx_args.correct_frequency_offset = 1
            THEN rx_waveform_shift + FrequencyOffsets[1]
            ELSE rx_waveform_shift
    /\ pc' = "fine"
    /\ UNCHANGED << rx_args, falling_edge_position, lt_peak_position, sym_i, reads,
                    corrected_symbols >>
    /\ UNCHANGED << cacheVars, codecVars, frameVars >>
    /\ UNCHANGED << mainVars, equalizerVars, callVars >>

\* 4. fine frequency offset: estimate, then rx_waveform_20mhz *= nco_signal
FineCorrect ==
    /\ pc = "fine"
    /\ stages' = stages \o FineStages(rx_args.correct_frequency_offset)
    /\ rx_waveform_written' =
            (rx_waveform_written \/ rx_args.correct_frequency_offset = 1)
    /\ rx_waveform_shift' =
            IF rx_args.correct_frequency_offset = 1
            THEN rx_waveform_shift + FrequencyOffsets[2]
            ELSE rx_waveform_shift
    /\ pc' = "correlate"
    /\ UNCHANGED << rx_args, falling_edge_position, lt_peak_position, sym_i, reads,
                    corrected_symbols >>
    /\ UNCHANGED << cacheVars, codecVars, frameVars >>
    /\ UNCHANGED << mainVars, equalizerVars, callVars >>

\* 5. long symbol correlator, lt_peak_position -= sample_advance, bounds check
LongCorrelate ==
    /\ pc = "correlate"
    /\ lt_peak_position' =
            (IF rx_args.bindings.patched THEN rx_args.bindings.peak
             ELSE long_symbol_correlator(rx_args.len, falling_edge_position))
            - rx_args.sample_advance
    /\ stages' = Append(stages, "long_symbol_correlator")
    /\ pc' = IF LtPeakOutOfBounds(lt_peak_position', rx_args.len)
             THEN "dropped" ELSE "estimate"
    /\ UNCHANGED << rx_args, falling_edge_position, sym_i, reads, corrected_symbols,
                    rx_waveform_written, rx_waveform_shift >>
    /\ UNCHANGED << cacheVars, codecVars, frameVars >>
    /\ UNCHANGED << mainVars, equalizerVars, callVars >>

\* 6-8. the two long training symbols are sliced and averaged, the channel
\* estimate and the pilot weights are computed, corrected_symbols is allocated
ChannelEstimate ==
    /\ pc = "estimate"
    /\ reads' = reads \cup { << lt_peak_position - 64, lt_peak_position >>,
                             << lt_peak_position, lt_peak_position + 64 >> }
    /\ stages' = Append(stages, "channel_estimate")
    /\ \E strength \in PilotStrengths :
        /\ pilot_strength' = strength
        /\ mrc_coef' = MrcCoef(strength, rx_args.use_max_ratio_combining)
    /\ average_slope_filter' = Zeros(L)
    /\ corrected_symbols' = 48 * rx_args.number_of_ofdm_symbols
    /\ sym_i' = 0
    /\ pc' = "symbols"
    /\ UNCHANGED << rx_args, falling_edge_position, lt_peak_position,
                    rx_waveform_written, rx_waveform_shift >>
    /\ UNCHANGED << pilots, average_slope, symbol_log >>
    /\ UNCHANGED << cacheVars, codecVars, frameVars >>
    /\ UNCHANGED << mainVars, callVars >>

\* one iteration of the symbol loop whose window fits the buffer
SymbolStep ==
    /\ pc = "symbols"
    /\ sym_i < rx_args.number_of_ofdm_symbols
    /\ ~SymbolOutOfBounds(lt_peak_position, sym_i, rx_args.len)
    /\ reads' = reads \cup { << SymbolStart(lt_peak_position, sym_i),
                                SymbolStop(lt_peak_position, sym_i) >> }
    /\ \E channel \in PilotChannels :
        LET equalized_pilots == [j \in 1..4 |-> channel[j] * TxPilots(sym_i)[j]]
        IN  /\ pilots' = DerotatePilots(equalized_pilots, sym_i)
            /\ average_slope_filter' =
                    ShiftSlopeFilter(average_slope_filter, Slope(pilots', mrc_coef))
            /\ symbol_log' = Append(symbol_log,
                    [i          |-> sym_i,
                     start      |-> SymbolStart(lt_peak_position, sym_i),
                     stop       |-> SymbolStop(lt_peak_position, sym_i),
                     start_corr |-> sym_i * 48,
                     stop_corr  |-> sym_i * 48 + 48,
                     equalized_pilots |-> equalized_pilots])
    /\ average_slope' = AverageSlope(average_slope_filter', sym_i)
    /\ stages' = Append(stages, "symbol")
    /\ sym_i' = sym_i + 1
    /\ UNCHANGED << pc, rx_args, falling_edge_position, lt_peak_position,
                    corrected_symbols, rx_waveform_written, rx_waveform_shift >>
    /\ UNCHANGED << pilot_strength, mrc_coef >>
    /\ UNCHANGED << cacheVars, codecVars, frameVars >>
    /\ UNCHANGED << mainVars, callVars >>

\* the iteration whose window exceeds the buffer: truncate, break, return
SymbolBreak ==
    /\ pc = "symbols"
    /\ sym_i < rx_args.number_of_ofdm_symbols
    /\ SymbolOutOfBounds(lt_peak_position, sym_i, rx_args.len)
    /\ corrected_symbols' = Min(corrected_symbols, sym_i * 48)
    /\ pc' = "returned"
    /\ UNCHANGED << rx_args, falling_edge_position, lt_peak_position, sym_i, reads,
                    stages, rx_waveform_written, rx_waveform_shift >>
    /\ UNCHANGED << cacheVars, codecVars, frameVars >>
    /\ UNCHANGED << mainVars, equalizerVars, callVars >>

\* the loop ran number_of_ofdm_symbols times: return corrected_symbols
ReceiverReturn ==
    /\ pc = "symbols"
    /\ sym_i = rx_args.number_of_ofdm_symbols
    /\ pc' = "returned"
    /\ UNCHANGED << receiverVars, cacheVars, codecVars, frameVars >>
    /\ UNCHANGED << mainVars, equalizerVars, callVars >>

\* n samples of value v
Const(n, v) == [i \in 1..n |-> v]

\* Buffers given to packet_detector: silence, a burst with lag-16 correlation 1,
\* a stretch whose lag-16 products cancel, and a second burst
DetectorInputs ==
    { Const(pad, 0) \o Const(n, 1) \o Const(m, -1) \o Const(k, 1) :
        pad \in 0..MaxPad, n \in {0, 20} \cup 44..47, m \in {0, 6, 20, 56},
        k \in {0, 8} }

\* comparison_ratio, packet_det_flag, falling_edge_position, _ = packet_detector(rx_input)
PacketDetectorCall ==
    /\ pc = "idle"
    /\ \E rx_input \in DetectorInputs :
        /\ op' = Call("packet_detector", rx_input, 0, 0)
        /\ out' = Return([comparison_ratio      |-> comparison_ratio(rx_input),
                          packet_det_flag       |-> packet_det_flag(rx_input),
                          falling_edge_position |-> packet_detector(Len(rx_input))])
    /\ pc' = "detected"
    /\ UNCHANGED << mid, cacheVars, frameVars, receiverVars, mainVars, equalizerVars, callVars >>

SpecDetector == Init /\ [][PacketDetectorCall]_vars

NextReceiver ==
    \/ CallReceiver \/ PacketDetect \/ CoarseCorrect \/ FineCorrect
    \/ LongCorrelate \/ ChannelEstimate \/ SymbolStep \/ SymbolBreak
    \/ ReceiverReturn

SpecReceiver == Init /\ [][NextReceiver]_vars

----------------------------------------------------------------------------
(* The pattern caches under calls from several frame contexts.  A call of   *)
(* create_interleaving_pattern is a lookup, then on a miss the computation  *)
(* and the store; another context may run between the two.                  *)

\* create_interleaving_pattern or create_deinterleaving_pattern is called
PatternCall(t) ==
    /\ pc = "idle"
    /\ pattern_calls[t].step = "idle"
    /\ \E fn \in {"create_interleaving_pattern", "create_deinterleaving_pattern"},
          key \in PatternKeys :
        pattern_calls' = [pattern_calls EXCEPT
                            ![t] = [step |-> "called", fn |-> fn, key |-> key]]
    /\ UNCHANGED << pc, cacheVars, codecVars, frameVars, receiverVars, mainVars,
                    equalizerVars >>

\* if (n_cbps, n_bpsc) in _INTERLEAVING_PATTERNS: return the cached pattern
PatternLookup(t) ==
    /\ pc = "idle"
    /\ pattern_calls[t].step = "called"
    /\ pattern_calls[t].fn = "create_interleaving_pattern"
    /\ pattern_calls' = [pattern_calls EXCEPT ![t] =
            IF @.key \in DOMAIN INTERLEAVING_PATTERNS
            THEN [@ EXCEPT !.step = "returned"]
                    @@ [pattern |-> INTERLEAVING_PATTERNS[@.key]]
            ELSE [@ EXCEPT !.step = "computing"]]
    /\ UNCHANGED << pc, cacheVars, codecVars, frameVars, receiverVars, mainVars,
                    equalizerVars >>

\* pattern = np.argsort(...); _INTERLEAVING_PATTERNS[(n_cbps, n_bpsc)] = pattern;
\* return pattern
PatternStore(t) ==
    /\ pc = "idle"
    /\ pattern_calls[t].step = "computing"
    /\ LET key     == pattern_calls[t].key
           pattern == FreshPattern[key]
       IN  /\ INTERLEAVING_PATTERNS' =
                [k \in DOMAIN INTERLEAVING_PATTERNS \cup {key} |->
                    IF k = key THEN pattern ELSE INTERLEAVING_PATTERNS[k]]
           /\ pattern_calls' = [pattern_calls EXCEPT ![t] =
                [@ EXCEPT !.step = "returned"] @@ [pattern |-> pattern]]
    /\ UNCHANGED << pc, DEINTERLEAVING_PATTERNS, codecVars, frameVars, receiverVars,
                    mainVars, equalizerVars >>

\* create_deinterleaving_pattern returns; _DEINTERLEAVING_PATTERNS is not touched
DeinterleavingPatternReturn(t) ==
    /\ pc = "idle"
    /\ pattern_calls[t].step = "called"
    /\ pattern_calls[t].fn = "create_deinterleaving_pattern"
    /\ pattern_calls' = [pattern_calls EXCEPT ![t] =
            [@ EXCEPT !.step = "returned"]
                @@ [pattern |-> create_deinterleaving_pattern(@.key[1], @.key[2])]]
    /\ UNCHANGED << pc, cacheVars, codecVars, frameVars, receiverVars, mainVars,
                    equalizerVars >>

\* the caller has taken the pattern; the frame context may call again
PatternTaken(t) ==
    /\ pc = "idle"
    /\ pattern_calls[t].step = "returned"
    /\ pattern_calls' = [pattern_calls EXCEPT ![t] = [step |-> "idle"]]
    /\ UNCHANGED << pc, cacheVars, codecVars, frameVars, receiverVars, mainVars,
                    equalizerVars >>

NextCache ==
    \E t \in Threads :
        \/ PatternCall(t) \/ PatternLookup(t) \/ PatternStore(t)
        \/ DeinterleavingPatternReturn(t) \/ PatternTaken(t)

SpecCache == Init /\ [][NextCache]_vars

----------------------------------------------------------------------------
(* __main__.py: the loop over the recorded frames *)

\* longest list of frames the loop is run over
MaxFrames == 3

\* rate_key = 0b0101 of the testbench frame, and the lowest rate
MainRateKeys == {5, 13}

\* What ofdm_receiver hands back for one frame: an empty array when detection
\* or timing failed, else the frame's symbols; a frame cut after its SIGNAL
\* symbol has too few symbols for its LENGTH.
MainReceiverResults ==
    {<< >>}
        \cup { ofdm_transmitter(<< >>, << >>, rk, 1) : rk \in MainRateKeys }
        \cup { Slice(ofdm_transmitter(<< >>, << >>, rk, 1), 0, 48) : rk \in MainRateKeys }

\* for rx_waveform_20mhz in rx_waveforms:
MainStart ==
    /\ pc = "idle"
    /\ \E n \in 1..MaxFrames : rx_waveforms' \in [1..n -> MainReceiverResults]
    /\ frame_i' = 0
    /\ pc' = "main_loop"
    /\ UNCHANGED << cacheVars, codecVars, receiverVars, equalizerVars, callVars >>
    /\ UNCHANGED << tx_mac_frame_bytes, tx_rate_key, tx_scrambler_state,
                    tx_symbol_stream, decoded_params, received >>

\* if corrected_symbols.size == 0: continue
MainSkip ==
    /\ pc = "main_loop"
    /\ frame_i < Len(rx_waveforms)
    /\ Len(rx_waveforms[frame_i + 1]) = 0
    /\ frame_i' = frame_i + 1
    /\ UNCHANGED << pc, rx_waveforms >>
    /\ UNCHANGED << cacheVars, codecVars, receiverVars, equalizerVars, callVars >>
    /\ UNCHANGED << tx_mac_frame_bytes, tx_rate_key, tx_scrambler_state,
                    tx_symbol_stream, decoded_params, received >>

\* The body of the loop for a frame ofdm_receiver returned symbols for:
\* decode_signal_field, the prints of rate_info['name'] and rate_info['Mbps'],
\* decode_data_symbols. Nothing catches what they raise.
MainDecodeFrame ==
    /\ pc = "main_loop"
    /\ frame_i < Len(rx_waveforms)
    /\ Len(rx_waveforms[frame_i + 1]) # 0
    /\ LET sym    == rx_waveforms[frame_i + 1]
           params == decode_signal_field(Slice(sym, 0, 48))
       IN  /\ decoded_params' = params
           /\ IF params.exc # "none"
              THEN received' = NotCalled /\ pc' = "main_terminated"
                   /\ frame_i' = frame_i
              ELSE IF "Mbps" \notin DOMAIN params.val.rate_info
              THEN received' = Raise("KeyError") /\ pc' = "main_terminated"
                   /\ frame_i' = frame_i
              ELSE /\ received' = decode_data_symbols(Slice(sym, 48, Len(sym)),
                                        params.val.rate_info, params.val.length)
                   /\ pc' = IF received'.exc = "none" THEN "main_loop"
                            ELSE "main_terminated"
                   /\ frame_i' = IF received'.exc = "none" THEN frame_i + 1
                                 ELSE frame_i
    /\ UNCHANGED rx_waveforms
    /\ UNCHANGED << cacheVars, codecVars, receiverVars, equalizerVars, callVars >>
    /\ UNCHANGED << tx_mac_frame_bytes, tx_rate_key, tx_scrambler_state,
                    tx_symbol_stream >>

\* the loop has gone through every frame
MainExit ==
    /\ pc = "main_loop"
    /\ frame_i = Len(rx_waveforms)
    /\ pc' = "main_done"
    /\ UNCHANGED << mainVars, equalizerVars, callVars >>
    /\ UNCHANGED << cacheVars, codecVars, receiverVars, equalizerVars, callVars >>
    /\ UNCHANGED << tx_mac_frame_bytes, tx_rate_key, tx_scrambler_state,
                    tx_symbol_stream, decoded_params, received >>

NextMain == MainStart \/ MainSkip \/ MainDecodeFrame \/ MainExit

SpecMain == Init /\ [][NextMain]_vars

----------------------------------------------------------------------------
(* Properties *)

\* the rate keys of the rate-1/2 BPSK and QPSK entries of RATE_MAP
HalfRateBpskQpsk == { k \in RateKeys : RATE_MAP[k].name \in {"BPSK 1/2", "QPSK 1/2"} }

\* C1: for a frame transmitted at a rate-1/2 BPSK or QPSK key, decode_signal_field
\* on the first 48 symbols returns normally, and decode_data_symbols on the
\* remaining symbols with the transmitted rate and length returns exactly the
\* transmitted MAC frame bytes with tail_ok and crc_ok true.
C1_EndToEndRoundTrip ==
    tx_rate_key \in HalfRateBpskQpsk =>
        /\ decoded_params.exc # "notcalled" => decoded_params.exc = "none"
        /\ (received.exc # "notcalled"
                /\ decoded_params.val.rate_info = RATE_MAP[tx_rate_key]) =>
            received = Return([mac_frame_bytes |-> tx_mac_frame_bytes,
                               tail_ok |-> TRUE, crc_ok |-> TRUE])

\* C2: for every rate of RATE_MAP and every bit vector b of length n_cbps,
\* interleave(b, n_cbps, n_bpsc) indexed with the pattern of
\* create_deinterleaving_pattern(n_cbps, n_bpsc) is b.
C2_DeinterleaveInvertsInterleave ==
    pc = "deinterleaved" => out = op.arg

\* C3: for every vector v whose first 7 entries are 0 and every initial state
\* in 1..127, descramble(scramble(v, s)) is v: same length, same values.
C3_DescrambleInvertsScramble ==
    pc = "descrambled" => out = op.arg

\* C4: for every bit vector u whose last 6 bits are 0, convolutional_decoder on
\* the soft bits 2 * convolutional_encoder(u) - 1, noise-free or with noise
\* added, returns exactly u.
C4_DecoderInvertsEncoder ==
    pc = "decoded" => out = op.arg

\* C5: for n_bpsc in {1, 2} and every bit vector b whose length is a multiple
\* of n_bpsc, demapper_ofdm(mapper_ofdm(b, n_bpsc), n_bpsc) > 0 has one entry
\* per input bit and reproduces b in order.
C5_DemapperInvertsMapper ==
    pc = "demapped" =>
        /\ Len(out) = Len(op.arg)
        /\ out = op.arg

\* the value of a bit string written least significant bit first
LsbFirstValue(bits) == Sum([k \in 1..Len(bits) |-> bits[k] * 2 ^ (k - 1)])

FallingEdgeChecked == pc \notin {"idle", "detect"}

\* the frame was rejected: empty result, no stage after the packet detector
RejectedEarly ==
    /\ pc = "rejected"
    /\ stages = << "packet_detector" >>
    /\ corrected_symbols = 0
    /\ reads = {}
    /\ ~rx_waveform_written

LtPeakChecked == pc \in {"dropped", "estimate", "symbols", "returned"}

\* C8: ofdm_receiver drops the frame with an empty result whenever
\* lt_peak_index after subtracting sample_advance is < 64 or the window
\* [lt_peak_index - 64, lt_peak_index + 64) exceeds the buffer; in every other
\* case every window of samples read lies within [0, len).
C8_DropsOrReadsInRange ==
    /\ (LtPeakChecked
            /\ (\/ lt_peak_position < 64
                \/ lt_peak_position - 64 < 0
                \/ lt_peak_position + 64 > rx_args.len)) =>
        (pc = "dropped" /\ corrected_symbols = 0 /\ reads = {})
    /\ \A w \in reads : 0 <= w[1] /\ w[1] < w[2] /\ w[2] <= rx_args.len

\* a frame whose training window runs past the end of the buffer was dropped
C8_Witness ==
    /\ pc = "dropped"
    /\ lt_peak_position >= 64
    /\ lt_peak_position + 64 > rx_args.len
    /\ reads = {}

\* C9: when the 4 decoded rate bits are not a key of RATE_MAP, the data decoding
\* of the frame raises nothing and yields an empty PSDU.
C9_InvalidRateAborts ==
    (received.exc # "notcalled" /\ decoded_params.val.rate_info = InvalidRate) =>
        /\ received.exc = "none"
        /\ received.val.mac_frame_bytes = << >>

\* C10: decode_data_symbols, given a rate of RATE_MAP, returns the recovered MAC
\* frame bytes in every case, and crc_ok is true exactly when the CRC-32 of
\* those bytes equals the trailing 4 bytes of the PSDU.
C10_AlwaysReturnsBytes ==
    (received.exc # "notcalled" /\ decoded_params.val.rate_info # InvalidRate) =>
        /\ received.exc = "none"
        /\ received.val.crc_ok =
                (crc32(received.val.mac_frame_bytes)
                    = LastN(psdu_with_crc(tx_mac_frame_bytes), 4))

\* C17: demapper_ofdm called with n_bpsc other than 1 or 2 (16-QAM, 64-QAM)
\* raises an error instead of returning a soft-bit array.
C17_DemapperRejectsQam ==
    pc = "qam_demapped" => out.exc = "ValueError"

\* pi1(k) = (n_cbps / 16) * (k mod 16) + floor(k / 16)
Pi1(n_cbps, k) == (n_cbps \div 16) * (k % 16) + (k \div 16)

\* pi2(i) = s * floor(i / s) + ((i + n_cbps - floor(16 * i / n_cbps)) mod s),
\* s = max(n_bpsc / 2, 1)
Pi2(n_cbps, n_bpsc, i) ==
    LET s == IF n_bpsc \div 2 > 1 THEN n_bpsc \div 2 ELSE 1
    IN  s * (i \div s) + ((i + n_cbps - ((16 * i) \div n_cbps)) % s)

\* p holds each of 0..n-1 exactly once
IsPermutation(p, n) ==
    /\ Len(p) = n
    /\ \A v \in 0..(n - 1) : \E j \in 1..n : p[j] = v

\* C18: for each (n_cbps, n_bpsc) of RATE_MAP the pattern of
\* create_interleaving_pattern is a permutation of 0..n_cbps-1 and interleave
\* places input bit k at output position pi2(pi1(k)).
C18_InterleaverFormula ==
    pc = "interleaved" =>
        LET n_cbps == RATE_MAP[op.param].n_cbps
            n_bpsc == RATE_MAP[op.param].n_bpsc
        IN  /\ << n_cbps, n_bpsc >> \in DOMAIN INTERLEAVING_PATTERNS
            /\ IsPermutation(INTERLEAVING_PATTERNS[<< n_cbps, n_bpsc >>], n_cbps)
            /\ Len(mid) = n_cbps
            /\ \A k \in 0..(n_cbps - 1) :
                    mid[Pi2(n_cbps, n_bpsc, Pi1(n_cbps, k)) + 1] = op.arg[k + 1]

\* input bit 17 of a 64-QAM symbol was interleaved to position pi2(pi1(17))
C18_Witness ==
    /\ pc = "interleaved"
    /\ RATE_MAP[op.param].n_cbps = 288
    /\ op.arg[18] = 1
    /\ mid[Pi2(288, 6, Pi1(288, 17)) + 1] = 1
    /\ Pi2(288, 6, Pi1(288, 17)) # Pi1(288, 17)

\* feedback = state[6] XOR state[3]
LfsrFeedback(state) == (state[7] + state[4]) % 2

\* the register shifted by one position with the feedback entering state[0]
LfsrNext(state) ==
    [j \in 1..7 |-> IF j = 1 THEN LfsrFeedback(state) ELSE state[j - 1]]

\* the register before step i (0-based) of the LFSR started in state
RECURSIVE LfsrStateAt(_, _)
LfsrStateAt(state, i) ==
    IF i = 0 \/ state = << >> THEN state
    ELSE IF i > 16 THEN LfsrStateAt(LfsrStateAt(state, 16), i - 16)
    ELSE LfsrStateAt(LfsrNext(state), i - 1)

\* C19: scramble is a 7-bit LFSR: at every step the feedback is
\* state[6] XOR state[3], the output is the input XOR the feedback, the next
\* state is the old one shifted by one position with the feedback entering
\* state[0]; the state sequence is the same for every input.
C19_ScrambleIsLfsr ==
    pc = "scrambled" =>
        LET init      == Format(op.param, 7)
            n         == Len(op.arg)
            keystream == scramble(Zeros(n), op.param)
        IN  /\ Len(mid) = n
            /\ \A i \in 1..n :
                /\ ScrambleState(init, i) = LfsrStateAt(init, i)
                /\ keystream[i] = LfsrFeedback(LfsrStateAt(init, i - 1))
                /\ mid[i] = XorBit(op.arg[i], keystream[i])

\* a vector with a byte value after the 7 zeros was scrambled from state 93
C19_Witness ==
    /\ pc = "scrambled"
    /\ op.param = 93
    /\ Len(op.arg) = 9
    /\ op.arg[8] = 255
    /\ SubSeq(mid, 1, 7) = << 0, 1, 1, 0, 1, 1, 0 >>

\* C20: for every initial state in 1..127 the first 7 output bits of scramble
\* on 7 zero input bits are the scrambler state after those 7 steps, newest at
\* state[0]; distinct initial states give distinct 7-bit outputs; the register
\* restarted from the recovered state continues the same XOR stream.
C20_StateRecovery ==
    pc = "scrambled" =>
        LET first7    == SubSeq(mid, 1, 7)
            recovered == Reverse(first7)
        IN  /\ ScrambleState(Format(op.param, 7), 7) = recovered
            /\ \A s2 \in ScramblerStates \ {op.param} :
                    scramble(Zeros(7), s2) # first7
            /\ SubSeq(mid, 8, Len(mid))
                    = ScrambleFrom(SubSeq(op.arg, 8, Len(op.arg)), recovered)

\* the state after 7 steps from state 127 was read off the first 7 output bits
C20_Witness ==
    /\ pc = "scrambled"
    /\ op.param = 127
    /\ Len(op.arg) > 7
    /\ Reverse(SubSeq(mid, 1, 7)) = ScrambleState(Format(127, 7), 7)
    /\ Reverse(SubSeq(mid, 1, 7)) # Format(127, 7)

\* ofdm_receiver has returned to its caller
ReceiverReturned == pc \in {"rejected", "dropped", "returned"}

\* C13: ofdm_receiver has no side effect on its input: after it returns, the
\* caller's sample buffer holds the same values as before the call (no net
\* frequency shift was applied to a buffer of more than one sample).
C13_InputBufferUnchanged ==
    ReceiverReturned => (rx_waveform_shift = 0 \/ rx_args.len <= 1)

\* b is a PSDU with a correct CRC-32 in which one byte was inverted
IsFlippedPsdu(b) ==
    /\ Len(b) >= 4
    /\ \E p \in 1..Len(b) :
        crc32(DropLastN(FlipByte(b, p), 4)) = LastN(FlipByte(b, p), 4)

\* C11: when a known-good PSDU with one byte flipped is handed to the
\* transmitter, the decoded bytes equal the flipped bytes and crc_ok is false.
C11_FlippedByteFailsCrc ==
    (received.exc # "notcalled"
        /\ IsFlippedPsdu(tx_mac_frame_bytes)
        /\ decoded_params.val.rate_info = RATE_MAP[tx_rate_key]) =>
        /\ received.exc = "none"
        /\ received.val.mac_frame_bytes = tx_mac_frame_bytes
        /\ ~received.val.crc_ok

\* C12: every per-frame failure stays local to its frame: the loop over the
\* frames goes on to the next frame and ends only after the last one.
C12_FrameFailuresStayLocal ==
    pc \in {"main_done", "main_terminated"} => frame_i = Len(rx_waveforms)

\* the buffer packet_detector was called with
DetectorInput == op.arg

\* C15: falling_edge is the first index i < 1000 at which the detection flag
\* goes from 1 to 0, and -1 when there is no such index.
C15_FallingEdgeIsFirstTransition ==
    pc = "detected" =>
        out.val.falling_edge_position =
            IF FallingEdgesOf(DetectorInput) = {} THEN -1
            ELSE CHOOSE i \in FallingEdgesOf(DetectorInput) :
                    \A j \in FallingEdgesOf(DetectorInput) : i <= j

TxTailBits ==
    LET psdu_bytes == psdu_with_crc(tx_mac_frame_bytes)
    IN  Slice(scrambled_bits(psdu_bytes, tx_rate_key, tx_scrambler_state),
              16 + 8 * Len(psdu_bytes), 16 + 8 * Len(psdu_bytes) + 6)

\* C21: the 6 tail bits of the scrambled stream are zero when it enters the
\* convolutional encoder, so the receiver's check of the last 6 decoded bits
\* succeeds on the error-free frame.
C21_TailZeroAndTailCheckPasses ==
    (received.exc # "notcalled"
        /\ decoded_params.val.rate_info = RATE_MAP[tx_rate_key]) =>
        /\ TxTailBits = Zeros(6)
        /\ received.exc = "none"
        /\ received.val.tail_ok

\* the transmit half of C21 alone
TxTailBitsZero == pc = "transmitted" => TxTailBits = Zeros(6)

\* C22: for n pairs of soft bits convolutional_decoder returns n - 6 bits, the
\* 6 tail bits being stripped from its result.
C22_DecoderStripsTail ==
    pc = "decoded" => Len(out) = Len(mid) \div 2 - 6

\* the pilot weights have been computed
WeightsComputed == pc \in {"symbols", "returned"}

\* the sum of 4 fractions <<numerator, denominator>> is 1
SumsToOne(w) ==
    w[1][1] * w[2][2] * w[3][2] * w[4][2] + w[2][1] * w[1][2] * w[3][2] * w[4][2]
        + w[3][1] * w[1][2] * w[2][2] * w[4][2] + w[4][1] * w[1][2] * w[2][2] * w[3][2]
    = w[1][2] * w[2][2] * w[3][2] * w[4][2]

\* C23: the pilot weights of ofdm_receiver are 4 non-negative values summing
\* to 1: |H[pilot_i]| / sum_j |H[pilot_j]| when max-ratio combining is enabled
\* and the sum is not zero, and 0.25 each when the sum is zero or max-ratio
\* combining is disabled.
C23_PilotWeights ==
    WeightsComputed =>
        /\ DOMAIN mrc_coef = 1..4
        /\ \A j \in 1..4 : mrc_coef[j][1] >= 0 /\ mrc_coef[j][2] > 0
        /\ SumsToOne(mrc_coef)
        /\ IF rx_args.use_max_ratio_combining # 0 /\ Sum(pilot_strength) # 0
           THEN \A j \in 1..4 :
                    mrc_coef[j][1] * Sum(pilot_strength) = pilot_strength[j] * mrc_coef[j][2]
           ELSE \A j \in 1..4 : 4 * mrc_coef[j][1] = mrc_coef[j][2]

\* weights of pilots of unequal strength under max-ratio combining
C23_Witness ==
    /\ pc = "returned"
    /\ rx_args.use_max_ratio_combining = 1
    /\ pilot_strength = << 3, 0, 1, 0 >>
    /\ mrc_coef[1] = << 3, 4 >>
    /\ mrc_coef[2] = << 0, 4 >>

\* C24: the symbol loop of ofdm_receiver processes symbols 0, 1, ... in order,
\* reads for symbol i the 64 samples starting at lt_peak_index + 80 + 80*i,
\* stops at the first symbol whose window ends past the buffer or at
\* number_of_ofdm_symbols, and returns 48*k values for k symbols processed,
\* those of symbol i at positions [48*i, 48*i + 48).
C24_SymbolLoop ==
    /\ \A k \in 1..Len(symbol_log) :
        /\ symbol_log[k].i = k - 1
        /\ symbol_log[k].start = lt_peak_position + 80 + 80 * (k - 1)
        /\ symbol_log[k].stop = symbol_log[k].start + 64
        /\ symbol_log[k].stop <= rx_args.len
        /\ << symbol_log[k].start, symbol_log[k].stop >> \in reads
        /\ symbol_log[k].start_corr = 48 * (k - 1)
        /\ symbol_log[k].stop_corr = 48 * (k - 1) + 48
    /\ pc = "returned" =>
        /\ corrected_symbols = 48 * Len(symbol_log)
        /\ \/ Len(symbol_log) = rx_args.number_of_ofdm_symbols
           \/ /\ Len(symbol_log) < rx_args.number_of_ofdm_symbols
              /\ lt_peak_position + 80 + 80 * Len(symbol_log) + 64 > rx_args.len

\* the loop stopped after one symbol because the window of the second one
\* ends past the buffer
C24_Witness ==
    /\ pc = "returned"
    /\ Len(symbol_log) = 1
    /\ rx_args.number_of_ofdm_symbols = 2
    /\ corrected_symbols = 48

\* a symbol has gone through the pilot tracking of the symbol loop
SymbolProcessed == pc \in {"symbols", "returned"} /\ symbol_log # << >>

\* index i of the symbol processed last
LastSymbol == Len(symbol_log) - 1

\* the pilots of symbol i with the polarity expected for it taken off:
\* equalized pilots times PILOT_BASE_POLARITY * PILOT_POLARITY[i % 127]
ExpectedDerotation(equalized_pilots, i) ==
    [j \in 1..4 |->
        equalized_pilots[j] * PILOT_BASE_POLARITY[j] * PILOT_POLARITY[(i % 127) + 1]]

\* The slope the pilots of symbol i measure, times the denominator of the
\* weights, in units of pi / 21: the phase of a derotated pilot (0 for +1, pi
\* for -1) over its subcarrier, weighted by mrc_coef.
MeasuredSlope(i) ==
    LET derotated == ExpectedDerotation(symbol_log[i + 1].equalized_pilots, i)
    IN  Sum([j \in 1..4 |->
            IF derotated[j] = -1 THEN mrc_coef[j][1] * (21 \div PILOT_CARRIERS[j])
            ELSE 0])

C26_PilotPolarityAgrees ==
    /\ PILOT_CARRIERS_IDX = << 43, 57, 7, 21 >>
    /\ SymbolProcessed =>
        pilots = ExpectedDerotation(symbol_log[LastSymbol + 1].equalized_pilots,
                                    LastSymbol)

\* every occurrence of stage b in stages comes after an occurrence of stage a
Precedes(a, b) ==
    \A j \in 1..Len(stages) :
        stages[j] = b => \E i \in 1..(j - 1) : stages[i] = a

\* the second measurement of the offsets, the one the fine offset is taken
\* from, comes after the coarse correction
FineMeasuredAfterCoarseCorrection ==
    \A j \in 1..Len(stages) :
        (stages[j] = "detect_frequency_offsets"
            /\ \E i \in 1..(j - 1) : stages[i] = "detect_frequency_offsets") =>
        \E k \in 1..(j - 1) : stages[k] = "nco_coarse"

\* the offsets have been measured twice before the correlator runs
MeasuredTwiceBeforeCorrelator ==
    \A j \in 1..Len(stages) :
        stages[j] = "long_symbol_correlator" =>
            \E i, k \in 1..(j - 1) :
                /\ i < k
                /\ stages[i] = "detect_frequency_offsets"
                /\ stages[k] = "detect_frequency_offsets"

\* C27 as stated: packet detection runs first, the fine offset is measured
\* only after the coarse correction was applied, the correlator runs only
\* after the fine correction, channel estimation only after the correlator.
C27_StagesInOrder ==
    /\ stages # << >> => stages[1] = "packet_detector"
    /\ FineMeasuredAfterCoarseCorrection
    /\ Precedes("nco_fine", "long_symbol_correlator")
    /\ Precedes("long_symbol_correlator", "channel_estimate")

\* C27, amended: packet detection runs first, the offsets are measured twice
\* before the correlator runs, channel estimation runs only after the
\* correlator and the symbol loop only after channel estimation; when
\* correct_frequency_offset is 1 the fine offset is measured only after the
\* coarse correction and the correlator runs only after the fine correction,
\* otherwise no correction is applied at all.
C27_StagesInOrderWhenCorrecting ==
    stages # << >> =>
        /\ stages[1] = "packet_detector"
        /\ MeasuredTwiceBeforeCorrelator
        /\ Precedes("long_symbol_correlator", "channel_estimate")
        /\ Precedes("channel_estimate", "symbol")
        /\ IF rx_args.correct_frequency_offset = 1
           THEN /\ FineMeasuredAfterCoarseCorrection
                /\ Precedes("nco_fine", "long_symbol_correlator")
           ELSE \A j \in 1..Len(stages) : stages[j] \notin {"nco_coarse", "nco_fine"}

\* a frame with correction that went through every stage and one symbol
C27_Witness ==
    /\ pc = "returned"
    /\ rx_args.correct_frequency_offset = 1
    /\ Len(stages) >= 8
    /\ SubSeq(stages, 1, 8) =
        << "packet_detector", "detect_frequency_offsets", "nco_coarse",
           "detect_frequency_offsets", "nco_fine", "long_symbol_correlator",
           "channel_estimate", "symbol" >>

\* the inverse of the permutation pattern (entries count from 0)
InversePattern(pattern) ==
    [j \in 1..Len(pattern) |->
        (CHOOSE k \in 1..Len(pattern) : pattern[k] = j - 1) - 1]

\* C28: after any interleaving of calls from concurrently processed frames,
\* every cached pattern and every pattern a call returns for a pair is the one
\* a fresh computation gives: the interleaving pattern, and for
\* create_deinterleaving_pattern its inverse.
C28_PatternCachesCoherent ==
    /\ \A key \in DOMAIN INTERLEAVING_PATTERNS :
        INTERLEAVING_PATTERNS[key] = FreshPattern[key]
    /\ \A t \in Threads :
        pattern_calls[t].step = "returned" =>
            pattern_calls[t].pattern =
                IF pattern_calls[t].fn = "create_interleaving_pattern"
                THEN FreshPattern[pattern_calls[t].key]
                ELSE InversePattern(FreshPattern[pattern_calls[t].key])

\* the interleaving half of C28 alone
InterleavingCacheCoherent ==
    /\ \A key \in DOMAIN INTERLEAVING_PATTERNS :
        INTERLEAVING_PATTERNS[key] = FreshPattern[key]
    /\ \A t \in Threads :
        (pattern_calls[t].step = "returned"
            /\ pattern_calls[t].fn = "create_interleaving_pattern") =>
            pattern_calls[t].pattern = FreshPattern[pattern_calls[t].key]

\* the registers scramble goes through in its first n steps, the initial one
\* first: the register after k steps is entry k + 1
RegisterStates(initial_state, n) ==
    [k \in 1..(n + 1) |-> ScrambleState(Format(initial_state, 7), k - 1)]

\* C29: started from any initial state in 1..127, no register scramble
\* reaches is all-zero, and the register is back at the initial one after
\* exactly 127 steps and not earlier.
C29_StateNonZeroPeriod127 ==
    pc = "scrambled" =>
        LET n      == Len(op.arg)
            states == RegisterStates(op.param, n)
        IN  /\ \A k \in 1..(n + 1) : states[k] # Zeros(7)
            /\ n >= 127 =>
                /\ states[128] = states[1]
                /\ \A k \in 2..127 : states[k] # states[1]

\* scramble ran through 127 steps from initial state 93
C29_Witness ==
    /\ pc = "scrambled"
    /\ op.param = 93
    /\ Len(op.arg) = 127
    /\ Len(mid) = 127

\* C30: create_signal_field builds exactly 24 bits before coding (4 rate,
\* 1 reserved, 12 length, 1 parity, 6 tail) and 48 BPSK symbols, for every
\* rate key and every PSDU length, lengths of 4096 bytes or more included.
C30_SignalFieldHas24Bits ==
    pc = "signal_built" =>
        /\ Len(mid) = 24
        /\ Len(create_signal_field(INTERLEAVING_PATTERNS, op.arg[1], op.param)) = 48

\* whatever the number of bits before coding, the interleaver picks 48 coded
\* bits, so 48 BPSK symbols come out
SignalFieldHas48Symbols ==
    pc = "signal_built" =>
        Len(create_signal_field(INTERLEAVING_PATTERNS, op.arg[1], op.param)) = 48

\* below 4096 bytes the field has 24 bits; from 4096 on it has more
SignalFieldBitsFollowLength ==
    pc = "signal_built" => (Len(mid) = 24 <=> op.arg[1] <= 4095)

============================================================================
